---- MODULE Spec2Model ----
(***************************************************************************)
(* Model of the Gemini chat application:                                   *)
(*   - the chat page (ChatPage: messages / input / isLoading state,        *)
(*     sendMessage, clearChat, the textarea's onChange),                   *)
(*   - the POST /api/chat route handler (src/app/api/chat/route.ts),       *)
(*   - getGeminiResponse (src/app/lib/gemini.tsx), which shapes the call   *)
(*     made to the generative-model SDK.                                   *)
(*                                                                         *)
(* Strings are sequences of chunks: a chunk is one character (user text,   *)
(* "\n", the characters of "User: ") or one fixed literal of the source    *)
(* that the program only copies and compares.  Concatenation is \o.        *)
(*                                                                         *)
(* JavaScript values that cross the HTTP boundary are tagged records       *)
(* [t, n, s, a]: t is the kind of the value, n its number (or 0/1 for a    *)
(* boolean), s its string, a its array elements.                           *)
(***************************************************************************)
EXTENDS Integers, Sequences, FiniteSets, TLC

VARIABLES
    messages,   \* useState<Message[]>([])   the Session
    input,      \* useState("")              the textarea's text
    isLoading,  \* useState(false)           the in-flight flag
    clock,      \* the instant the next new Date() reads (logical time)
    dispatched, \* how many times the page has called fetch
    calls,      \* the requests under way, one record each
    lastCall    \* the handler that ran last, with what it was given and whether it returned early

vars == <<messages, input, isLoading, clock, dispatched, calls, lastCall>>

(***************************************************************************)
(* Bounds of the model.                                                    *)
(***************************************************************************)
MaxSends == 3       \* requests the page dispatches in one behaviour
MaxHistory == 3     \* history entries of a request sent straight to the endpoint

(***************************************************************************)
(* JavaScript values.                                                      *)
(***************************************************************************)
Undefined == [t |-> "undefined", n |-> 0, s |-> <<>>, a |-> <<>>]
Null == [t |-> "null", n |-> 0, s |-> <<>>, a |-> <<>>]
Bool(b) == [t |-> "boolean", n |-> IF b THEN 1 ELSE 0, s |-> <<>>, a |-> <<>>]
Num(k) == [t |-> "number", n |-> k, s |-> <<>>, a |-> <<>>]
Str(str) == [t |-> "string", n |-> 0, s |-> str, a |-> <<>>]
Arr(items) == [t |-> "array", n |-> 0, s |-> <<>>, a |-> items]
Obj == [t |-> "object", n |-> 0, s |-> <<>>, a |-> <<>>]

\* typeof v
TypeOf(v) ==
    CASE v.t = "undefined" -> "undefined"
      [] v.t = "boolean" -> "boolean"
      [] v.t = "number" -> "number"
      [] v.t = "string" -> "string"
      [] OTHER -> "object"

\* ToBoolean(v): what `!v`, `v && ...` and `if (v)` test
Truthy(v) ==
    CASE v.t = "undefined" -> FALSE
      [] v.t = "null" -> FALSE
      [] v.t = "boolean" -> v.n = 1
      [] v.t = "number" -> v.n # 0
      [] v.t = "string" -> Len(v.s) > 0
      [] OTHER -> TRUE

IsArray(v) == v.t = "array"

\* v.length > 0 (undefined > 0 is false)
LengthPositive(v) ==
    CASE v.t = "array" -> Len(v.a) > 0
      [] v.t = "string" -> Len(v.s) > 0
      [] OTHER -> FALSE

\* An element of a history array: an object with role and content, or something else.
Item(role, content) == [t |-> "object", role |-> role, content |-> content]
NullItem == [t |-> "null", role |-> Undefined, content |-> Undefined]

(***************************************************************************)
(* String.prototype.trim, on the one whitespace character of the model.    *)
(***************************************************************************)
IsSpace(c) == c \in {" ", "\n"}

RECURSIVE TrimStart(_)
TrimStart(str) ==
    IF str # <<>> /\ IsSpace(Head(str)) THEN TrimStart(Tail(str)) ELSE str

RECURSIVE TrimEnd(_)
TrimEnd(str) ==
    IF str # <<>> /\ IsSpace(str[Len(str)])
    THEN TrimEnd(SubSeq(str, 1, Len(str) - 1))
    ELSE str

Trim(str) == TrimEnd(TrimStart(str))

(***************************************************************************)
(* HTTP responses as fetch hands them to the page.                         *)
(*   rejected : the fetch promise rejected (no response at all)            *)
(*   status   : the HTTP status                                            *)
(*   json     : the body parses as JSON                                    *)
(*   hasError / error , hasReply / reply : the body's fields               *)
(***************************************************************************)
JsonError(status, msg) ==
    [rejected |-> FALSE, status |-> status, json |-> TRUE,
     hasError |-> TRUE, error |-> msg, hasReply |-> FALSE, reply |-> <<>>]

JsonReply(text) ==
    [rejected |-> FALSE, status |-> 200, json |-> TRUE,
     hasError |-> FALSE, error |-> <<>>, hasReply |-> TRUE, reply |-> text]

(***************************************************************************)
(* src/app/lib/gemini.tsx : getGeminiResponse                              *)
(***************************************************************************)
Temperature == 70        \* 0.7, in hundredths
TopK == 40
TopP == 95               \* 0.95, in hundredths
MaxOutputTokens == 1024

generationConfig ==
    [temperature |-> Temperature, topK |-> TopK, topP |-> TopP,
     maxOutputTokens |-> MaxOutputTokens]

Acknowledgement ==
    <<"I understand. I'll maintain context from our conversation and provide helpful responses.">>

\* HasHistory asking for more than the current message
HasHistoryBeyondCurrent(history) ==
    Truthy(history) /\ history.t = "array" /\ Len(history.a) > 1

\* if (history && history.length > 0)
HasHistory(history) == Truthy(history) /\ LengthPositive(history)

\* chatHistory with the last entry kept (no slice)
chatHistoryKeepsLast(history) ==
    [i \in 1..Len(history.a) |->
        [role |-> IF history.a[i].role = Str(<<"assistant">>) THEN "model" ELSE "user",
         text |-> history.a[i].content.s]]

\* history.slice(0, -1).map(msg => ({role: ..., parts: [{text: msg.content}]}))
chatHistory(history) ==
    [i \in 1..(Len(history.a) - 1) |->
        [role |-> IF history.a[i].role = Str(<<"assistant">>) THEN "model" ELSE "user",
         text |-> history.a[i].content.s]]

\* initialHistory without the system prompt pair
initialHistoryNoPair(history, systemPrompt) == chatHistory(history)

\* the system prompt pair put before chatHistory when systemPrompt is truthy
initialHistory(history, systemPrompt) ==
    IF Truthy(systemPrompt)
    THEN <<[role |-> "user", text |-> systemPrompt.s],
           [role |-> "model", text |-> Acknowledgement]>> \o chatHistory(history)
    ELSE chatHistory(history)

\* singlePrompt with one line break for two
singlePromptOneBreak(message, systemPrompt) ==
    IF Truthy(systemPrompt)
    THEN systemPrompt.s \o <<"\n", "U", "s", "e", "r", ":", " ">> \o message.s
    ELSE message.s

\* the prompt of the path without history: `${systemPrompt}\n\nUser: ${message}`
singlePrompt(message, systemPrompt) ==
    IF Truthy(systemPrompt)
    THEN systemPrompt.s \o <<"\n", "\n", "U", "s", "e", "r", ":", " ">> \o message.s
    ELSE message.s

\* The call getGeminiResponse makes to the SDK: model.startChat({history,
\* generationConfig}) followed by chat.sendMessage(message), or
\* model.generateContent(prompt).  config is <<>> when none is passed.
geminiCall(message, history, systemPrompt) ==
    IF HasHistory(history)
    THEN [kind |-> "chat", history |-> initialHistory(history, systemPrompt),
          config |-> <<generationConfig>>, message |-> message.s, prompt |-> <<>>]
    ELSE [kind |-> "generate", history |-> <<>>, config |-> <<>>, message |-> <<>>,
          prompt |-> singlePrompt(message, systemPrompt)]

\* geminiCatch rethrowing what it caught
geminiCatchRethrows(error) == error

\* catch (error) { throw new Error("Failed to get response from Gemini") }
geminiCatch(error) ==
    [isError |-> TRUE, message |-> <<"Failed to get response from Gemini">>]

(***************************************************************************)
(* src/app/api/chat/route.ts : POST                                        *)
(* A request body is [kind, message, history, systemPrompt]:               *)
(*   kind "unparseable" : req.json() rejects with a SyntaxError            *)
(*   kind "null"        : the body is the JSON text null                   *)
(*   kind "object"      : a JSON object with the three fields, each a      *)
(*                        value or Undefined when the key is absent        *)
(***************************************************************************)
\* what `await req.json()` and the destructuring throw, <<>> when nothing
parseThrows(body) ==
    CASE body.kind = "unparseable" ->
            <<[isError |-> TRUE, message |-> <<"Unexpected token in JSON">>]>>
      [] body.kind = "null" ->
            <<[isError |-> TRUE,
               message |-> <<"Cannot destructure property 'message' of 'body' as it is null.">>]>>
      [] OTHER -> <<>>

\* const { message, history = [], systemPrompt } = body
historyOrDefault(body) ==
    IF body.history.t = "undefined" THEN Arr(<<>>) ELSE body.history

\* isValidItem without the test of the role's value
isValidItemAnyRole(item) ==
    /\ item.t = "object"
    /\ TypeOf(item.role) = "string"
    /\ TypeOf(item.content) = "string"

\* (item) => typeof item === 'object' && item !== null && ... (lines 44-49)
isValidItem(item) ==
    /\ item.t = "object"
    /\ TypeOf(item.role) = "string"
    /\ (item.role = Str(<<"user">>) \/ item.role = Str(<<"assistant">>))
    /\ TypeOf(item.content) = "string"

\* validationError with the history tested before the message
validationErrorHistoryFirst(message, history) ==
    IF Truthy(history) /\ ~IsArray(history)
    THEN <<"History must be an array">>
    ELSE IF /\ Truthy(history)
            /\ LengthPositive(history)
            /\ ~(\A i \in 1..Len(history.a) : isValidItem(history.a[i]))
    THEN <<"Invalid history format">>
    ELSE IF ~Truthy(message) \/ TypeOf(message) # "string"
    THEN <<"Message is required and must be a string">>
    ELSE <<>>

\* the three validations in order; the error text of the first that fails, <<>> when none does
validationError(message, history) ==
    IF ~Truthy(message) \/ TypeOf(message) # "string"
    THEN <<"Message is required and must be a string">>
    ELSE IF Truthy(history) /\ ~IsArray(history)
    THEN <<"History must be an array">>
    ELSE IF /\ Truthy(history)
            /\ LengthPositive(history)
            /\ ~(\A i \in 1..Len(history.a) : isValidItem(history.a[i]))
    THEN <<"Invalid history format">>
    ELSE <<>>

\* the route's catch block (lines 64-79)
catchResponse(error) ==
    IF error.isError
    THEN JsonError(500, error.message)
    ELSE JsonError(500, <<"An unexpected error occurred">>)

(***************************************************************************)
(* The chat page (src/unnamed/part_000 : ChatPage).                        *)
(* A Message is [role, text, timestamp, isError]; isError is FALSE where   *)
(* the source leaves the optional field out.                               *)
(***************************************************************************)
SystemPrompt ==
    <<"You are a helpful AI assistant created by Uzair. Always respond helpfully, and maintain context from earlier messages in this chat. If someone asks Who made you? or anything similar, respond with: I was made by Uzair.">>

ErrorText ==
    <<"Sorry, there was an error processing your request. Please try again.">>

\* returnsEarly with the input tested untrimmed
returnsEarlyUntrimmed(inp, loading) == inp = <<>> \/ loading

\* if (!input.trim() || isLoading) return;
returnsEarly(inp, loading) == Trim(inp) = <<>> \/ loading

\* userMessageOf with the raw input as text
userMessageOfRaw(inp, now) ==
    [role |-> "user", text |-> inp, timestamp |-> now, isError |-> FALSE]

\* const userMessage = { role: "user", text: input.trim(), timestamp: ... }
userMessageOf(inp, now) ==
    [role |-> "user", text |-> Trim(inp), timestamp |-> now, isError |-> FALSE]

\* formattedHistory without the push of the current message
formattedHistoryNoPush(msgs, currentInput) ==
    [i \in 1..Len(msgs) |->
        Item(Str(<<IF msgs[i].role = "assistant" THEN "assistant" ELSE "user">>),
             Str(msgs[i].text))]

\* messages.map(msg => ({role: ..., content: msg.text})), then push of the current message
formattedHistory(msgs, currentInput) ==
    [i \in 1..Len(msgs) |->
        Item(Str(<<IF msgs[i].role = "assistant" THEN "assistant" ELSE "user">>),
             Str(msgs[i].text))]
    \o <<Item(Str(<<"user">>), Str(currentInput))>>

\* JSON.stringify({ message, history, systemPrompt }) as the route's req.json() reads it back
requestBody(msgs, currentInput) ==
    [kind |-> "object",
     message |-> Str(currentInput),
     history |-> Arr(formattedHistory(msgs, currentInput)),
     systemPrompt |-> Str(SystemPrompt)]

\* res.ok
ResOk(status) == status >= 200 /\ status <= 299

errorMessage(now) ==
    [role |-> "assistant", text |-> ErrorText, timestamp |-> now, isError |-> TRUE]

botMessage(reply, now) ==
    [role |-> "assistant", text |-> reply, timestamp |-> now, isError |-> FALSE]

\* assistantTurn without the test of data.reply
assistantTurnNoReplyTest(res, now) ==
    IF res.rejected THEN errorMessage(now)
    ELSE IF ~ResOk(res.status) THEN errorMessage(now)
    ELSE IF ~res.json THEN errorMessage(now)
    ELSE IF res.hasError THEN errorMessage(now)
    ELSE botMessage(res.reply, now)

\* lines 105-134: the turn appended once fetch has settled with res
assistantTurn(res, now) ==
    IF res.rejected THEN errorMessage(now)                  \* await fetch throws
    ELSE IF ~ResOk(res.status) THEN errorMessage(now)       \* !res.ok
    ELSE IF ~res.json THEN errorMessage(now)                \* await res.json() throws
    ELSE IF res.hasError THEN errorMessage(now)             \* 'error' in data
    ELSE IF ~(res.hasReply /\ Len(res.reply) > 0) THEN errorMessage(now)   \* !data.reply
    ELSE botMessage(res.reply, now)

(***************************************************************************)
(* A request record:                                                       *)
(*   body        the request body                                          *)
(*   srv         where the route handler is: "received", "invoking" (at    *)
(*               the await of getGeminiResponse), "responded", or          *)
(*               "unreached" when the request never got to the route       *)
(*   invoked     how many calls to the SDK the handler has made            *)
(*   pcall       <<the SDK call>> once made                                *)
(*   raised      <<the provider's error>> once the SDK call has thrown     *)
(*   resp        <<the response>> once there is one                        *)
(*   cli         "pending" while the page's sendMessage is at its await of *)
(*               fetch, "none" for a request the page did not send         *)
(*   userMessage <<the userMessage of that sendMessage>>                   *)
(* The record of a request of the page is gone once its sendMessage has    *)
(* run to its end.                                                         *)
(***************************************************************************)
NewCall(body, cli, userMessage) ==
    [body |-> body, srv |-> "received", invoked |-> 0, pcall |-> <<>>, raised |-> <<>>,
     resp |-> <<>>, cli |-> cli, userMessage |-> userMessage]

Remove(seq, k) == SubSeq(seq, 1, k - 1) \o SubSeq(seq, k + 1, Len(seq))

(***************************************************************************)
(* Inputs of the model.                                                    *)
(***************************************************************************)
SeqsUpTo(S, n) == UNION {[1..k -> S] : k \in 0..n}

\* what the user may have typed: nothing, white space only, text with white
\* space around it, text with white space inside it
Inputs == {<<>>, <<" ", "\n">>, <<" ", "a", " ">>, <<"a", " ", "a">>}

\* what response.text() may return
ProviderTexts == {<<>>, <<"r">>}

\* what the SDK may throw
ProviderErrors ==
    {[isError |-> TRUE, message |-> <<"API key not valid">>],
     [isError |-> TRUE, message |-> <<"Resource has been exhausted">>]}

\* what fetch may settle with when the request does not reach the route:
\* a rejection, or the answer of something in between
Faults ==
    {[rejected |-> TRUE, status |-> 0, json |-> FALSE,
      hasError |-> FALSE, error |-> <<>>, hasReply |-> FALSE, reply |-> <<>>],
     [rejected |-> FALSE, status |-> 502, json |-> FALSE,
      hasError |-> FALSE, error |-> <<>>, hasReply |-> FALSE, reply |-> <<>>],
     [rejected |-> FALSE, status |-> 200, json |-> FALSE,
      hasError |-> FALSE, error |-> <<>>, hasReply |-> FALSE, reply |-> <<>>],
     [rejected |-> FALSE, status |-> 200, json |-> TRUE,
      hasError |-> TRUE, error |-> <<"upstream">>, hasReply |-> FALSE, reply |-> <<>>],
     [rejected |-> FALSE, status |-> 200, json |-> TRUE,
      hasError |-> FALSE, error |-> <<>>, hasReply |-> FALSE, reply |-> <<>>]}

\* request bodies sent straight to the endpoint
ItemValues ==
    {Item(Str(<<"user">>), Str(<<"a">>)),
     Item(Str(<<"assistant">>), Str(<<"r">>)),
     Item(Str(<<"system">>), Str(<<"a">>)),
     Item(Str(<<"user">>), Num(5)),
     NullItem}

MessageValues == {Undefined, Num(5), Str(<<>>), Str(<<"a">>)}

HistoryValues ==
    {Undefined, Null, Bool(FALSE), Num(0), Str(<<>>), Str(<<"a">>), Obj}
    \cup {Arr(h) : h \in SeqsUpTo(ItemValues, MaxHistory)}

SystemPromptValues == {Undefined, Null, Str(<<>>), Str(<<"X">>)}

Bodies ==
    {[kind |-> k, message |-> Undefined, history |-> Undefined, systemPrompt |-> Undefined] :
        k \in {"unparseable", "null"}}
    \cup [kind : {"object"}, message : MessageValues, history : HistoryValues,
          systemPrompt : SystemPromptValues]

(***************************************************************************)
(* The page's handlers.  A discrete event's state updates are rendered     *)
(* before the next event is dispatched, so a handler reads the current     *)
(* state; the updates after an await are functional (prev => ...).         *)
(***************************************************************************)
\* res is <<the response>> a sendMessage resumed with
Ran(op, inp, early, res) == [op |-> op, input |-> inp, early |-> early, res |-> res]

\* onChange={(e) => setInput(e.target.value)} of the textarea, disabled={isLoading}
onChange(v) ==
    /\ ~isLoading
    /\ input' = v
    /\ lastCall' = Ran("onChange", <<>>, FALSE, <<>>)
    /\ UNCHANGED <<messages, isLoading, clock, dispatched, calls>>

\* sendMessage without setIsLoading(true)
sendMessageFlagNotSet ==
    IF returnsEarly(input, isLoading)
    THEN /\ lastCall' = Ran("sendMessage", input, TRUE, <<>>)
         /\ UNCHANGED <<messages, input, isLoading, clock, dispatched, calls>>
    ELSE /\ dispatched < MaxSends
         /\ LET userMessage == userMessageOf(input, clock)
                currentInput == Trim(input)
            IN /\ messages' = Append(messages, userMessage)
               /\ calls' = Append(calls,
                      NewCall(requestBody(messages, currentInput), "pending", <<userMessage>>))
         /\ input' = <<>>
         /\ clock' = clock + 1
         /\ dispatched' = dispatched + 1
         /\ lastCall' = Ran("sendMessage", input, FALSE, <<>>)
         /\ UNCHANGED isLoading

\* sendMessage up to its await of fetch (lines 68-103)
sendMessage ==
    IF returnsEarly(input, isLoading)
    THEN /\ lastCall' = Ran("sendMessage", input, TRUE, <<>>)
         /\ UNCHANGED <<messages, input, isLoading, clock, dispatched, calls>>
    ELSE /\ dispatched < MaxSends
         /\ LET userMessage == userMessageOf(input, clock)
                currentInput == Trim(input)
            IN /\ messages' = Append(messages, userMessage)
               /\ calls' = Append(calls,
                      NewCall(requestBody(messages, currentInput), "pending", <<userMessage>>))
         /\ input' = <<>>
         /\ isLoading' = TRUE
         /\ clock' = clock + 1
         /\ dispatched' = dispatched + 1
         /\ lastCall' = Ran("sendMessage", input, FALSE, <<>>)

\* sendMessageResume appending to the messages of the render sendMessage was
\* called in ([...messages, turn]), which lack the user turn
sendMessageResumeStale(k) ==
    /\ calls[k].cli = "pending"
    /\ calls[k].resp # <<>>
    /\ LET turn == assistantTurn(calls[k].resp[1], clock)
       IN /\ messages' = Append(SubSeq(messages, 1, Len(messages) - 1), turn)
          /\ calls' = Remove(calls, k)
    /\ isLoading' = FALSE
    /\ clock' = clock + 1
    /\ lastCall' = Ran("sendMessageResume", <<>>, FALSE, calls[k].resp)
    /\ UNCHANGED <<input, dispatched>>

\* sendMessageResume without the finally block's setIsLoading(false)
sendMessageResumeKeepsFlag(k) ==
    /\ calls[k].cli = "pending"
    /\ calls[k].resp # <<>>
    /\ LET turn == assistantTurn(calls[k].resp[1], clock)
       IN /\ messages' = Append(messages, turn)
          /\ calls' = Remove(calls, k)
    /\ clock' = clock + 1
    /\ lastCall' = Ran("sendMessageResume", <<>>, FALSE, calls[k].resp)
    /\ UNCHANGED <<input, dispatched, isLoading>>

\* sendMessage from the await of fetch to its end (lines 105-137)
sendMessageResume(k) ==
    /\ calls[k].cli = "pending"
    /\ calls[k].resp # <<>>
    /\ LET turn == assistantTurn(calls[k].resp[1], clock)
       IN /\ messages' = Append(messages, turn)
          /\ calls' = Remove(calls, k)
    /\ isLoading' = FALSE
    /\ clock' = clock + 1
    /\ lastCall' = Ran("sendMessageResume", <<>>, FALSE, calls[k].resp)
    /\ UNCHANGED <<input, dispatched>>

\* clearChat removing the last turn only
clearChatDropsLast ==
    /\ messages' = SubSeq(messages, 1, Len(messages) - 1)
    /\ lastCall' = Ran("clearChat", <<>>, FALSE, <<>>)
    /\ UNCHANGED <<input, isLoading, clock, dispatched, calls>>

\* clearChat: setMessages([]).  The function tests nothing; the Clear button that
\* calls it is rendered when messages.length > 0, and a call with the Session
\* already empty is the second of two calls in succession.
clearChat ==
    /\ messages' = <<>>
    /\ lastCall' = Ran("clearChat", <<>>, FALSE, <<>>)
    /\ UNCHANGED <<input, isLoading, clock, dispatched, calls>>

\* fetch settles without the request having reached the route
fetchFault(k, res) ==
    /\ calls[k].cli = "pending"
    /\ calls[k].srv = "received"
    /\ calls' = [calls EXCEPT ![k].srv = "unreached", ![k].resp = <<res>>]
    /\ UNCHANGED <<messages, input, isLoading, clock, dispatched, lastCall>>

(***************************************************************************)
(* The route handler.                                                      *)
(***************************************************************************)
\* POST up to its await of getGeminiResponse, or to its return (lines 20-61, 64-79)
POST(k) ==
    /\ calls[k].srv = "received"
    /\ LET body == calls[k].body
           thrown == parseThrows(body)
           message == body.message
           history == historyOrDefault(body)
           invalid == validationError(message, history)
       IN calls' =
            IF thrown # <<>>
            THEN [calls EXCEPT ![k].srv = "responded",
                               ![k].resp = <<catchResponse(thrown[1])>>]
            ELSE IF invalid # <<>>
            THEN [calls EXCEPT ![k].srv = "responded",
                               ![k].resp = <<JsonError(400, invalid)>>]
            ELSE [calls EXCEPT ![k].srv = "invoking",
                               ![k].invoked = @ + 1,
                               ![k].pcall = <<geminiCall(message, history, body.systemPrompt)>>]
    /\ UNCHANGED <<messages, input, isLoading, clock, dispatched, lastCall>>

\* the SDK call returns text: return NextResponse.json({ reply })
providerReturns(k, text) ==
    /\ calls[k].srv = "invoking"
    /\ calls' = [calls EXCEPT ![k].srv = "responded", ![k].resp = <<JsonReply(text)>>]
    /\ UNCHANGED <<messages, input, isLoading, clock, dispatched, lastCall>>

\* the SDK call throws: getGeminiResponse's catch rethrows, the route's catch answers
providerThrows(k, error) ==
    /\ calls[k].srv = "invoking"
    /\ calls' = [calls EXCEPT ![k].srv = "responded",
                              ![k].raised = <<error>>,
                              ![k].resp = <<catchResponse(geminiCatch(error))>>]
    /\ UNCHANGED <<messages, input, isLoading, clock, dispatched, lastCall>>

(***************************************************************************)
(* Spec: the page, the route and the provider together.                    *)
(***************************************************************************)
Init ==
    /\ messages = <<>>
    /\ input = <<>>
    /\ isLoading = FALSE
    /\ clock = 0
    /\ dispatched = 0
    /\ calls = <<>>
    /\ lastCall = Ran("none", <<>>, FALSE, <<>>)

Next ==
    \/ \E v \in Inputs : onChange(v)
    \/ sendMessage
    \/ clearChat
    \/ \E k \in 1..Len(calls) : sendMessageResume(k)
    \/ \E k \in 1..Len(calls), res \in Faults : fetchFault(k, res)
    \/ \E k \in 1..Len(calls) : POST(k)
    \/ \E k \in 1..Len(calls), text \in ProviderTexts : providerReturns(k, text)
    \/ \E k \in 1..Len(calls), error \in ProviderErrors : providerThrows(k, error)

Spec == Init /\ [][Next]_vars

(***************************************************************************)
(* FairSpec: Spec where every await settles.  The route handler runs once  *)
(* the request has arrived, the SDK call returns or throws, and the        *)
(* continuation of a sendMessage whose fetch has settled is run by the     *)
(* event loop.                                                             *)
(***************************************************************************)
Fairness ==
    /\ WF_vars(\E k \in 1..Len(calls) : POST(k))
    /\ WF_vars(\E k \in 1..Len(calls) :
                  \/ \E text \in ProviderTexts : providerReturns(k, text)
                  \/ \E error \in ProviderErrors : providerThrows(k, error))
    /\ WF_vars(\E k \in 1..Len(calls) : sendMessageResume(k))

FairSpec == Spec /\ Fairness

(***************************************************************************)
(* RelaySpec: one request, with any body, sent straight to the endpoint.   *)
(***************************************************************************)
RelayInit ==
    /\ messages = <<>>
    /\ input = <<>>
    /\ isLoading = FALSE
    /\ clock = 0
    /\ dispatched = 0
    /\ \E body \in Bodies : calls = <<NewCall(body, "none", <<>>)>>
    /\ lastCall = Ran("none", <<>>, FALSE, <<>>)

RelayNext ==
    \/ POST(1)
    \/ \E text \in ProviderTexts : providerReturns(1, text)
    \/ \E error \in ProviderErrors : providerThrows(1, error)

RelaySpec == RelayInit /\ [][RelayNext]_vars

(***************************************************************************)
(* Properties.                                                             *)
(***************************************************************************)
InFlight == {k \in 1..Len(calls) : calls[k].cli = "pending"}

Last(seq) == seq[Len(seq)]

\* C1: at most one request of the page is in flight in every reachable state,
\* and a sendMessage call made while one is in flight appends no turn and
\* dispatches nothing.
C1_SingleFlight ==
    /\ [](Cardinality(InFlight) <= 1)
    /\ [][(InFlight # {} /\ sendMessage)
            => UNCHANGED <<messages, dispatched, calls, isLoading>>]_vars

\* C1 witness: sendMessage has just been called, and has returned early, while a
\* request was in flight.
C1_Witness ==
    /\ InFlight # {}
    /\ lastCall.op = "sendMessage"
    /\ lastCall.early

\* C2 (as claimed): whenever a sendMessage resumes and appends its reply or error
\* turn, the user turn of that sendMessage is still in the Session, right before
\* the turn appended.
C2_UserTurnPrecedesReply ==
    [][\A k \in 1..Len(calls) :
          sendMessageResume(k)
            => /\ Len(messages') >= 2
               /\ messages'[Len(messages') - 1] = calls[k].userMessage[1]]_vars

\* the failures the page is to answer with an error turn
FailedResponse(res) ==
    \/ res.rejected
    \/ res.status < 200
    \/ res.status > 299
    \/ ~res.json
    \/ res.hasError
    \/ ~res.hasReply
    \/ res.reply = <<>>

\* C3: a sendMessage that resumes with a failure (fetch rejected, status not 2xx,
\* body not JSON, body with an error field, reply missing or empty) appends
\* exactly one turn, an assistant turn with isError and the fixed text, and its
\* request is over; and a request whose provider call threw is answered 500 with
\* a non-empty error string.
C3_OneErrorTurn ==
    /\ [][\A k \in 1..Len(calls) :
            (sendMessageResume(k) /\ FailedResponse(calls[k].resp[1]))
              => /\ Len(messages') = Len(messages) + 1
                 /\ SubSeq(messages', 1, Len(messages)) = messages
                 /\ Last(messages').role = "assistant"
                 /\ Last(messages').isError
                 /\ Last(messages').text = ErrorText
                 /\ Len(calls') = Len(calls) - 1]_vars
    /\ [](\A k \in 1..Len(calls) :
            calls[k].raised # <<>>
              => /\ calls[k].resp # <<>>
                 /\ calls[k].resp[1].status = 500
                 /\ calls[k].resp[1].hasError
                 /\ calls[k].resp[1].error # <<>>)

\* C3 witness: a sendMessage has resumed with the 500 answer to a provider call
\* that threw, and the Session ends with the error turn.
C3_Witness ==
    /\ lastCall.op = "sendMessageResume"
    /\ lastCall.res[1].status = 500
    /\ messages # <<>>
    /\ Last(messages).isError

\* the SDK call the route makes for a request body that passes validation
CallFor(body) == geminiCall(body.message, historyOrDefault(body), body.systemPrompt)

\* the seed history of a chat call without the system prompt pair
Mapped(call, body) ==
    IF Truthy(body.systemPrompt)
    THEN SubSeq(call.history, 3, Len(call.history))
    ELSE call.history

\* C4: when the page dispatches the request for a new message m from a Session S,
\* the route accepts it and the chat call made for it has one seed entry per turn
\* of S, in order, with the turn's text and its role mapped (the system prompt
\* pair aside), and m as the one message sent; the route makes that call, once.
C4_RoundTrip ==
    /\ [][dispatched' = dispatched + 1
            => LET body == Last(calls').body
                   call == CallFor(body)
                   seed == Mapped(call, body)
               IN /\ parseThrows(body) = <<>>
                  /\ validationError(body.message, historyOrDefault(body)) = <<>>
                  /\ call.kind = "chat"
                  /\ call.message = Trim(input)
                  /\ Len(seed) = Len(messages)
                  /\ \A i \in 1..Len(messages) :
                        /\ seed[i].text = messages[i].text
                        /\ seed[i].role =
                              IF messages[i].role = "assistant" THEN "model" ELSE "user"]_vars
    /\ [](\A k \in InFlight :
            /\ calls[k].invoked <= 1
            /\ calls[k].srv \in {"invoking", "responded"}
                 => /\ calls[k].invoked = 1
                    /\ calls[k].pcall = <<CallFor(calls[k].body)>>)

\* C4 witness: the route has made the chat call for a message sent from a Session
\* of at least two turns.
C4_Witness ==
    \E k \in InFlight :
        /\ calls[k].pcall # <<>>
        /\ calls[k].pcall[1].kind = "chat"
        /\ Len(calls[k].body.history.a) >= 3
        /\ Len(calls[k].pcall[1].history) >= 4

\* a request with a non-empty string message and an empty (or absent) history
EmptyHistoryRequest(body) ==
    /\ body.kind = "object"
    /\ body.message.t = "string"
    /\ body.message.s # <<>>
    /\ body.history \in {Undefined, Arr(<<>>)}

\* C5 (amended): for a request with empty history, the route makes one
\* generateContent call and no chat call; with a non-empty system prompt X the
\* prompt is X, "\n\nUser: ", m; with no system prompt it is m.
C5_SinglePrompt ==
    \A k \in 1..Len(calls) :
        (calls[k].srv # "received" /\ EmptyHistoryRequest(calls[k].body))
          => LET body == calls[k].body
             IN /\ calls[k].invoked = 1
                /\ calls[k].pcall # <<>>
                /\ calls[k].pcall[1].kind = "generate"
                /\ (body.systemPrompt.t = "string" /\ body.systemPrompt.s # <<>>)
                     => calls[k].pcall[1].prompt =
                          body.systemPrompt.s
                          \o <<"\n", "\n", "U", "s", "e", "r", ":", " ">>
                          \o body.message.s
                /\ body.systemPrompt = Undefined
                     => calls[k].pcall[1].prompt = body.message.s

\* C5 witness: the generateContent call has been made for a request with empty
\* history and the system prompt X.
C5_Witness ==
    \E k \in 1..Len(calls) :
        /\ EmptyHistoryRequest(calls[k].body)
        /\ calls[k].body.systemPrompt = Str(<<"X">>)
        /\ calls[k].pcall # <<>>
        /\ calls[k].pcall[1].kind = "generate"

\* C5 (as claimed): with a non-empty system prompt X the prompt of the
\* generateContent call is exactly X, "\n\n", m.
C5_AsClaimed ==
    \A k \in 1..Len(calls) :
        (/\ calls[k].srv # "received"
         /\ EmptyHistoryRequest(calls[k].body)
         /\ calls[k].body.systemPrompt.t = "string"
         /\ calls[k].body.systemPrompt.s # <<>>)
          => /\ calls[k].pcall # <<>>
             /\ calls[k].pcall[1].kind = "generate"
             /\ calls[k].pcall[1].prompt =
                  calls[k].body.systemPrompt.s \o <<"\n", "\n">> \o calls[k].body.message.s

\* C6 (as claimed): every call made to the SDK, generateContent or chat, carries
\* temperature 0.7, topK 40, topP 0.95 and maxOutputTokens 1024.
C6_ConfigOnEveryCall ==
    \A k \in 1..Len(calls) :
        calls[k].pcall # <<>>
          => calls[k].pcall[1].config =
               <<[temperature |-> 70, topK |-> 40, topP |-> 95, maxOutputTokens |-> 1024]>>

\* C7 (as claimed): a request with a non-empty string message and a history that
\* is present and no array is answered 400 "History must be an array" without a
\* call to the SDK.
C7_NonArrayHistoryRejected ==
    \A k \in 1..Len(calls) :
        (/\ calls[k].srv # "received"
         /\ calls[k].body.kind = "object"
         /\ calls[k].body.message.t = "string"
         /\ calls[k].body.message.s # <<>>
         /\ calls[k].body.history.t \notin {"undefined", "array"})
          => /\ calls[k].invoked = 0
             /\ calls[k].resp # <<>>
             /\ calls[k].resp[1].status = 400
             /\ calls[k].resp[1].error = <<"History must be an array">>

\* C8 (as claimed): a request ends in one of 400, 200, 500; 400 comes from
\* validation with no call to the SDK, 200 and 500 come after exactly one call.
C8_TerminalStates ==
    \A k \in 1..Len(calls) :
        (calls[k].srv = "responded")
          => /\ calls[k].resp # <<>>
             /\ calls[k].resp[1].status \in {400, 200, 500}
             /\ calls[k].resp[1].status = 400 => calls[k].invoked = 0
             /\ calls[k].resp[1].status \in {200, 500} => calls[k].invoked = 1

\* C9: with no request in flight and an input whose trimmed text m is not empty,
\* sendMessage appends one turn to the Session, a user turn with text m, and
\* dispatches one request.
C9_AppendUserTurn ==
    [][(InFlight = {} /\ ~isLoading /\ Trim(input) # <<>> /\ sendMessage)
         => /\ Len(messages') = Len(messages) + 1
            /\ SubSeq(messages', 1, Len(messages)) = messages
            /\ Last(messages').role = "user"
            /\ Last(messages').text = Trim(input)
            /\ dispatched' = dispatched + 1
            /\ Len(calls') = Len(calls) + 1
            /\ Last(calls').cli = "pending"]_vars

\* C9 witness: sendMessage has just accepted an input with white space around
\* its text, and the Session ends with the user turn.
C9_Witness ==
    /\ lastCall.op = "sendMessage"
    /\ ~lastCall.early
    /\ lastCall.input # Trim(lastCall.input)
    /\ messages # <<>>
    /\ Last(messages).role = "user"
    /\ Last(messages).text = Trim(lastCall.input)

\* C10: sendMessage with an input that is empty or white space only leaves the
\* Session, the in-flight flag and the input as they are and dispatches nothing.
C10_BlankInputNoOp ==
    [][(Trim(input) = <<>> /\ sendMessage)
         => UNCHANGED <<messages, isLoading, input, dispatched, calls>>]_vars

\* C10 witness: sendMessage has just returned early on a white-space-only input,
\* with no request in flight.
C10_Witness ==
    /\ lastCall.op = "sendMessage"
    /\ lastCall.early
    /\ ~isLoading
    /\ input # <<>>
    /\ Trim(input) = <<>>
    /\ lastCall.input = input

\* C11: clearChat empties the Session from whatever state it is called in and
\* changes nothing else of the page; called on a Session it has already emptied
\* it leaves the page as it is.
C11_ClearResets ==
    [][clearChat
         => /\ Len(messages') = 0
            /\ UNCHANGED <<input, isLoading, clock, dispatched, calls>>
            /\ messages = <<>> => messages' = messages]_vars

\* C11 witness: clearChat has run last, after an exchange that had put turns in
\* the Session, and the Session is empty.
C11_Witness ==
    /\ lastCall.op = "clearChat"
    /\ messages = <<>>
    /\ dispatched >= 1
    /\ InFlight = {}

\* what the route is to refuse in a history entry
BadItem(item) ==
    \/ item.t # "object"
    \/ item.role \notin {Str(<<"user">>), Str(<<"assistant">>)}
    \/ item.content.t # "string"

ValidMessage(body) ==
    /\ body.kind = "object"
    /\ body.message.t = "string"
    /\ body.message.s # <<>>

\* C12: a request with a valid message and an array history with an entry that is
\* no {role: user | assistant, content: string} object is answered 400 "Invalid
\* history format" without a call to the SDK.
C12_BadItemRejected ==
    \A k \in 1..Len(calls) :
        (/\ calls[k].srv # "received"
         /\ ValidMessage(calls[k].body)
         /\ calls[k].body.history.t = "array"
         /\ \E i \in 1..Len(calls[k].body.history.a) : BadItem(calls[k].body.history.a[i]))
          => /\ calls[k].srv = "responded"
             /\ calls[k].invoked = 0
             /\ calls[k].pcall = <<>>
             /\ calls[k].resp[1].status = 400
             /\ calls[k].resp[1].error = <<"Invalid history format">>

\* C12 witness: the route has answered a request whose history holds an entry
\* with role "system".
C12_Witness ==
    \E k \in 1..Len(calls) :
        /\ calls[k].srv = "responded"
        /\ ValidMessage(calls[k].body)
        /\ calls[k].body.history.t = "array"
        /\ \E i \in 1..Len(calls[k].body.history.a) :
              calls[k].body.history.a[i].role = Str(<<"system">>)
        /\ calls[k].resp[1].status = 400

\* the rules a body breaks: 1 message, 2 history type, 3 history item
BrokenRules(body) ==
    (IF body.message.t = "string" /\ body.message.s # <<>> THEN {} ELSE {1})
    \cup (IF body.history.t \in {"undefined", "array"} THEN {} ELSE {2})
    \cup (IF /\ body.history.t = "array"
             /\ \E i \in 1..Len(body.history.a) : BadItem(body.history.a[i])
          THEN {3} ELSE {})

RuleText(r) ==
    CASE r = 1 -> <<"Message is required and must be a string">>
      [] r = 2 -> <<"History must be an array">>
      [] r = 3 -> <<"Invalid history format">>

Least(S) == CHOOSE r \in S : \A q \in S : r <= q

\* C13: a request that breaks more than one validation rule is answered 400 with
\* the error of the first rule it breaks, in the order message, history type,
\* history item.
C13_FirstFailureWins ==
    \A k \in 1..Len(calls) :
        (/\ calls[k].srv # "received"
         /\ calls[k].body.kind = "object"
         /\ Cardinality(BrokenRules(calls[k].body)) > 1)
          => /\ calls[k].srv = "responded"
             /\ calls[k].invoked = 0
             /\ calls[k].resp[1].status = 400
             /\ calls[k].resp[1].error = RuleText(Least(BrokenRules(calls[k].body)))

\* C13 witness: the route has answered a request that has no string message and
\* a history that is no array.
C13_Witness ==
    \E k \in 1..Len(calls) :
        /\ calls[k].srv = "responded"
        /\ calls[k].body.kind = "object"
        /\ {1, 2} \subseteq BrokenRules(calls[k].body)

\* C14: whatever error the SDK call throws, the route answers 500 with the error
\* "Failed to get response from Gemini" and nothing of the error thrown, so two
\* requests that differ in the error thrown only are answered alike.
C14_ProviderErrorNormalized ==
    \A k \in 1..Len(calls) :
        calls[k].raised # <<>>
          => calls[k].resp =
               <<[rejected |-> FALSE, status |-> 500, json |-> TRUE, hasError |-> TRUE,
                  error |-> <<"Failed to get response from Gemini">>,
                  hasReply |-> FALSE, reply |-> <<>>]>>

\* C14 witness: the SDK call has thrown "API key not valid" and the route has
\* answered.
C14_Witness ==
    \E k \in 1..Len(calls) :
        /\ calls[k].raised # <<>>
        /\ calls[k].raised[1].message = <<"API key not valid">>
        /\ calls[k].srv = "responded"

\* a request with a valid message and a non-empty history of valid entries
ValidHistoryRequest(body) ==
    /\ ValidMessage(body)
    /\ body.history.t = "array"
    /\ Len(body.history.a) >= 1
    /\ \A i \in 1..Len(body.history.a) : ~BadItem(body.history.a[i])

\* C15: for a valid non-empty history h of length n, message m and system prompt
\* p, the route makes one chat call whose seed history is the pair user(p),
\* model(acknowledgement) exactly when p is a non-empty string, followed by
\* h[1..n-1] in order with assistant mapped to "model", user to "user" and the
\* content kept; h[n] is dropped and m is the message sent.
C15_SeedHistory ==
    \A k \in 1..Len(calls) :
        (calls[k].srv # "received" /\ ValidHistoryRequest(calls[k].body))
          => LET h == calls[k].body.history.a
                 p == calls[k].body.systemPrompt
                 pair == IF p.t = "string" /\ p.s # <<>>
                         THEN <<[role |-> "user", text |-> p.s],
                                [role |-> "model", text |-> Acknowledgement]>>
                         ELSE <<>>
             IN /\ calls[k].invoked = 1
                /\ calls[k].pcall # <<>>
                /\ calls[k].pcall[1].kind = "chat"
                /\ calls[k].pcall[1].message = calls[k].body.message.s
                /\ calls[k].pcall[1].history =
                     pair \o [i \in 1..(Len(h) - 1) |->
                                [role |-> IF h[i].role = Str(<<"assistant">>)
                                          THEN "model" ELSE "user",
                                 text |-> h[i].content.s]]

\* C15 witness: the chat call has been made for a history of three entries that
\* starts and ends with an assistant entry, with the system prompt X.
C15_Witness ==
    \E k \in 1..Len(calls) :
        /\ ValidHistoryRequest(calls[k].body)
        /\ calls[k].body.systemPrompt = Str(<<"X">>)
        /\ Len(calls[k].body.history.a) = 3
        /\ calls[k].body.history.a[1].role = Str(<<"assistant">>)
        /\ calls[k].body.history.a[3].role = Str(<<"assistant">>)
        /\ calls[k].pcall # <<>>
        /\ Len(calls[k].pcall[1].history) = 4

\* C16: the request dispatched for a message m from a Session S has message m and
\* a history of |S| + 1 entries: one {role, content} per turn of S as it was
\* before m was appended, in order, then {role: user, content: m}.
C16_RequestShape ==
    [][dispatched' = dispatched + 1
         => LET body == Last(calls').body
                m == Trim(input)
            IN /\ body.kind = "object"
               /\ body.message = Str(m)
               /\ body.history.t = "array"
               /\ Len(body.history.a) = Len(messages) + 1
               /\ \A i \in 1..Len(messages) :
                     body.history.a[i] =
                       [t |-> "object", role |-> Str(<<messages[i].role>>),
                        content |-> Str(messages[i].text)]
               /\ Last(body.history.a) =
                     [t |-> "object", role |-> Str(<<"user">>), content |-> Str(m)]]_vars

\* C16 witness: a request is in flight whose history has three entries or more.
C16_Witness ==
    \E k \in InFlight :
        /\ Len(calls[k].body.history.a) >= 3
        /\ Len(messages) >= 3

IsPrefix(p, q) == Len(p) <= Len(q) /\ SubSeq(q, 1, Len(p)) = p

\* C17: in every step of the page other than clearChat the Session before the
\* step is a prefix of the Session after it; clearChat empties it.
C17_AppendOnly ==
    [][IF clearChat THEN messages' = <<>> ELSE IsPrefix(messages, messages')]_vars

\* C17 witness: a sendMessage has resumed and the Session has grown to four turns
\* or more.
C17_Witness ==
    /\ lastCall.op = "sendMessageResume"
    /\ Len(messages) >= 4

\* the request of the sendMessage that read the instant t is in flight
Pending(t) == \E k \in InFlight : calls[k].userMessage[1].timestamp = t

\* C18: when every await settles, every request dispatched comes to its end, and
\* its end appends exactly one assistant turn and clears the in-flight flag; the
\* flag is set exactly while a request is in flight; and with none in flight a
\* sendMessage with a non-blank input is accepted.
C18_Resubmittable ==
    /\ \A t \in 0..(2 * MaxSends) : Pending(t) ~> ~Pending(t)
    /\ [](isLoading <=> InFlight # {})
    /\ [][\A k \in 1..Len(calls) :
            sendMessageResume(k)
              => /\ Len(messages') = Len(messages) + 1
                 /\ Last(messages').role = "assistant"
                 /\ ~isLoading'
                 /\ InFlight' = {}]_vars
    /\ [][(InFlight = {} /\ Trim(input) # <<>> /\ sendMessage)
            => /\ dispatched' = dispatched + 1
               /\ Last(messages').role = "user"
               /\ Len(calls') = Len(calls) + 1]_vars

\* C18 witness: a sendMessage has been accepted after a request that ended with
\* the error turn.
C18_Witness ==
    /\ lastCall.op = "sendMessage"
    /\ ~lastCall.early
    /\ dispatched >= 2
    /\ Len(messages) >= 3
    /\ messages[Len(messages) - 1].isError
    /\ InFlight # {}

\* C19 (as claimed): the Session's turns alternate user, assistant, ... from a
\* user turn, with as many assistant turns as user turns when no request is in
\* flight and one less while one is.
C19_Alternation ==
    /\ \A i \in 1..Len(messages) :
          messages[i].role = IF i % 2 = 1 THEN "user" ELSE "assistant"
    /\ Cardinality({i \in 1..Len(messages) : messages[i].role = "user"})
         = Cardinality({i \in 1..Len(messages) : messages[i].role = "assistant"})
           + (IF InFlight # {} THEN 1 ELSE 0)

====
